---- MODULE Spec2Model ----
(***************************************************************************)
(* Location matching of hitrow/see: src/matcher/location.rs builds a       *)
(* LocationMatcher from a raw location string (regex `~`, prefix `^`,      *)
(* suffix `$`, otherwise glob) and evaluates it on request paths;          *)
(* src/config/extend.rs compiles the regex and the glob or terminates the  *)
(* process with a diagnostic.                                              *)
(*                                                                         *)
(* Strings are sequences of one-character strings.  A compiled regular     *)
(* expression is a syntax tree of records; the fragment of the regex and   *)
(* glob syntaxes modelled is the one spanned by the alphabet Chars.        *)
(***************************************************************************)
EXTENDS Integers, Sequences, FiniteSets

VARIABLES location, matcher, exited, diagnostic, pc, path, result

vars == <<location, matcher, exited, diagnostic, pc, path, result>>

-----------------------------------------------------------------------------
(* Bounds and input alphabets *)

MaxLen == 3

MaxPathLen == 3

Chars == {"~", "^", "$", "a", "/", "*", "?", "[", "]"}

PathChars == {"a", "/", "~"}

Strs(alphabet, n) == UNION {[1..k -> alphabet] : k \in 0..n}

Threads == {1, 2}

-----------------------------------------------------------------------------
(* String helpers of the Rust standard library *)

starts_with(s, prefix) ==
    /\ Len(prefix) <= Len(s)
    /\ \A i \in 1..Len(prefix) : s[i] = prefix[i]

ends_with(s, suffix) ==
    /\ Len(suffix) <= Len(s)
    /\ \A i \in 1..Len(suffix) : s[Len(s) - Len(suffix) + i] = suffix[i]

Drop(s, n) == SubSeq(s, n + 1, Len(s))

-----------------------------------------------------------------------------
(* crate::matcher: the markers and the marker stripper *)

REGEX_WORD == <<"~">>

START_WORD == <<"^">>

END_WORD == <<"$">>

None == [some |-> FALSE]

Some(v) == [some |-> TRUE, value |-> v]

replace_match_keyword(raw, keyword) ==
    IF starts_with(raw, keyword) THEN Some(Drop(raw, Len(keyword))) ELSE None

-----------------------------------------------------------------------------
(* The regex engine: syntax trees and the search over a haystack.          *)
(* Ends(n, h, S) is the set of positions at which a match of node n can    *)
(* end when it starts at a position of S (positions are 0..Len(h)).        *)

Lit(c) == [t |-> "lit", c |-> c]

AnyChar == [t |-> "any"]

Class(negated, set) == [t |-> "class", negated |-> negated, set |-> set]

StartLine == [t |-> "bol"]

EndLine == [t |-> "eol"]

Rep(sub, many) == [t |-> "rep", many |-> many, sub |-> sub]

Cat(subs) == [t |-> "cat", subs |-> subs]

Alt(subs) == [t |-> "alt", subs |-> subs]

RECURSIVE Ends(_, _, _)
RECURSIVE CatEnds(_, _, _, _)
RECURSIVE StarEnds(_, _, _)

Ends(n, h, S) ==
    CASE n.t = "lit"   -> {i + 1 : i \in {j \in S : j < Len(h) /\ h[j + 1] = n.c}}
      [] n.t = "any"   -> {i + 1 : i \in {j \in S : j < Len(h)}}
      [] n.t = "class" -> {i + 1 : i \in {j \in S : j < Len(h)
                                           /\ ((h[j + 1] \in n.set) # n.negated)}}
      [] n.t = "bol"   -> S \cap {0}
      [] n.t = "eol"   -> S \cap {Len(h)}
      [] n.t = "cat"   -> CatEnds(n.subs, 1, h, S)
      [] n.t = "alt"   -> UNION {Ends(n.subs[k], h, S) : k \in 1..Len(n.subs)}
      [] n.t = "rep"   -> IF n.many THEN StarEnds(n.sub, h, S)
                          ELSE S \cup Ends(n.sub, h, S)

CatEnds(subs, k, h, S) ==
    IF k > Len(subs) THEN S ELSE CatEnds(subs, k + 1, h, Ends(subs[k], h, S))

StarEnds(sub, h, S) ==
    LET T == S \cup Ends(sub, h, S)
    IN IF T = S THEN S ELSE StarEnds(sub, h, T)

\* Regex::is_match: an unanchored search, the match may start anywhere.
regex_is_match(re, h) == Ends(re.ast, h, 0..Len(h)) # {}

-----------------------------------------------------------------------------
(* Regex::new: the parser of the regex syntax, on the alphabet Chars.      *)
(* `^` and `$` are assertions, `*` and `?` postfix repetitions (a `?`      *)
(* right after a repetition makes it lazy), `[` opens a class; everything  *)
(* else is a literal.  Classes are not modelled beyond the unclosed one.   *)

Ok(v) == [ok |-> TRUE, value |-> v]

Err(kind) == [ok |-> FALSE, kind |-> kind]

RECURSIVE RegexParse(_, _, _)
RegexParse(s, i, acc) ==
    IF i > Len(s) THEN Ok(Cat(acc))
    ELSE LET c == s[i] IN
         IF c \in {"*", "?"}
         THEN IF acc = <<>> THEN Err("repetition operator missing expression")
              ELSE LET lazy == i < Len(s) /\ s[i + 1] = "?"
                       node == Rep(acc[Len(acc)], c = "*")
                   IN RegexParse(s, IF lazy THEN i + 2 ELSE i + 1,
                                 [acc EXCEPT ![Len(acc)] = node])
         ELSE IF c = "[" THEN Err("unclosed character class")
         ELSE IF c = "^" THEN RegexParse(s, i + 1, Append(acc, StartLine))
         ELSE IF c = "$" THEN RegexParse(s, i + 1, Append(acc, EndLine))
         ELSE RegexParse(s, i + 1, Append(acc, Lit(c)))

Regex_new(s) ==
    LET r == RegexParse(s, 1, <<>>)
    IN IF r.ok THEN Ok([pattern |-> s, ast |-> r.value]) ELSE r

\* The regex fragment: no `]` after a `[` (no closed character class).
InRegexFragment(s) ==
    \A i \in 1..Len(s) : s[i] = "[" => \A j \in (i + 1)..Len(s) : s[j] # "]"

-----------------------------------------------------------------------------
(* globset, as used by to_glob and compile_matcher with default options    *)
(* (literal_separator off): Glob::new parses the pattern into tokens and   *)
(* translates them to a regex anchored at both ends.                       *)

is_separator(c) == c = "/"

Literal(c) == [k |-> "Literal", c |-> c]

AnyToken == [k |-> "Any"]

ZeroOrMore == [k |-> "ZeroOrMore"]

RecursivePrefix == [k |-> "RecursivePrefix"]

RecursiveSuffix == [k |-> "RecursiveSuffix"]

RecursiveZeroOrMore == [k |-> "RecursiveZeroOrMore"]

ClassToken(negated, set) == [k |-> "Class", negated |-> negated, set |-> set]

\* Parser::parse_class after the `[` (and the negation sign): scan to the
\* closing `]`; a `]` that comes first is a member of the class.
RECURSIVE ClassScan(_, _, _, _, _)
ClassScan(s, j, first, negated, set) ==
    IF j > Len(s) THEN Err("unclosed character class; missing ']'")
    ELSE IF s[j] = "]" /\ ~first
         THEN Ok([token |-> ClassToken(negated, set), next |-> j + 1])
         ELSE ClassScan(s, j + 1, FALSE, negated, set \cup {s[j]})

parse_class(s, i) ==
    LET negated == i <= Len(s) /\ s[i] \in {"!", "^"}
    IN ClassScan(s, IF negated THEN i + 1 ELSE i, TRUE, negated, {})

\* Parser::parse_star at the `*` of index i: what it does to the tokens and
\* the index of the next character to read.
parse_star(s, i, acc) ==
    LET two    == <<ZeroOrMore, ZeroOrMore>>
        hasNxt == i + 2 <= Len(s)
        prevSep == i > 1 /\ is_separator(s[i - 1])
        last   == acc[Len(acc)]
        front  == SubSeq(acc, 1, Len(acc) - 1)
        fold(suffix) ==
            IF last.k \in {"RecursivePrefix", "RecursiveSuffix"} THEN acc
            ELSE Append(front, IF suffix THEN RecursiveSuffix
                                         ELSE RecursiveZeroOrMore)
    IN IF ~(i + 1 <= Len(s) /\ s[i + 1] = "*")
       THEN [tokens |-> Append(acc, ZeroOrMore), next |-> i + 1]
       ELSE IF acc = <<>>
            THEN IF hasNxt /\ ~is_separator(s[i + 2])
                 THEN [tokens |-> two, next |-> i + 2]
                 ELSE [tokens |-> <<RecursivePrefix>>, next |-> i + 3]
            ELSE IF ~prevSep
                 THEN [tokens |-> acc \o two, next |-> i + 2]
                 ELSE IF ~hasNxt
                      THEN [tokens |-> fold(TRUE), next |-> i + 2]
                      ELSE IF is_separator(s[i + 2])
                           THEN [tokens |-> fold(FALSE), next |-> i + 3]
                           ELSE [tokens |-> acc \o two, next |-> i + 2]

RECURSIVE GlobParse(_, _, _)
GlobParse(s, i, acc) ==
    IF i > Len(s) THEN Ok(acc)
    ELSE LET c == s[i] IN
         IF c = "?" THEN GlobParse(s, i + 1, Append(acc, AnyToken))
         ELSE IF c = "*"
              THEN LET r == parse_star(s, i, acc)
                   IN GlobParse(s, r.next, r.tokens)
         ELSE IF c = "["
              THEN LET r == parse_class(s, i + 1)
                   IN IF r.ok
                      THEN GlobParse(s, r.value.next, Append(acc, r.value.token))
                      ELSE r
         ELSE GlobParse(s, i + 1, Append(acc, Literal(c)))

\* Glob::tokens_to_regex without literal_separator.
token_to_regex(tok) ==
    CASE tok.k = "Literal"    -> Lit(tok.c)
      [] tok.k = "Any"        -> AnyChar
      [] tok.k = "ZeroOrMore" -> Rep(AnyChar, TRUE)
      [] tok.k = "RecursivePrefix" ->
             Alt(<<Rep(Lit("/"), FALSE), Cat(<<Rep(AnyChar, TRUE), Lit("/")>>)>>)
      [] tok.k = "RecursiveSuffix" -> Cat(<<Lit("/"), Rep(AnyChar, TRUE)>>)
      [] tok.k = "RecursiveZeroOrMore" ->
             Alt(<<Lit("/"), Cat(<<Lit("/"), Rep(AnyChar, TRUE), Lit("/")>>)>>)
      [] tok.k = "Class"      -> Class(tok.negated, tok.set)

\* Glob::to_regex_with: `^` tokens `$`; a lone `**` matches everything.
tokens_to_regex(tokens) ==
    IF tokens = <<RecursivePrefix>>
    THEN Cat(<<StartLine, Rep(AnyChar, TRUE), EndLine>>)
    ELSE Cat(<<StartLine>>
             \o [k \in 1..Len(tokens) |-> token_to_regex(tokens[k])]
             \o <<EndLine>>)

Glob_new(s) ==
    LET r == GlobParse(s, 1, <<>>)
    IN IF r.ok
       THEN Ok([glob |-> s, tokens |-> r.value, re |-> tokens_to_regex(r.value)])
       ELSE r

\* compile_matcher as if the glob were built with literal_separator(true):
\* `*` and `?` stop at a path separator.
compile_matcher_literal_separator(glob) ==
    LET noSep == Class(TRUE, {"/"})
        tr(tok) == CASE tok.k = "Any"        -> noSep
                     [] tok.k = "ZeroOrMore" -> Rep(noSep, TRUE)
                     [] OTHER                -> token_to_regex(tok)
        ast == Cat(<<StartLine>>
                   \o [k \in 1..Len(glob.tokens) |-> tr(glob.tokens[k])]
                   \o <<EndLine>>)
    IN [pat |-> glob, re |-> [pattern |-> glob.glob, ast |-> ast]]

compile_matcher(glob) == [pat |-> glob, re |-> [pattern |-> glob.glob, ast |-> glob.re]]

\* GlobMatcher::is_match: the regex on the whole path.
glob_is_match(gm, h) == regex_is_match(gm.re, h)

-----------------------------------------------------------------------------
(* src/config/extend.rs: Force for &str.  A coercion either returns the    *)
(* compiled value or terminates the process with a message (exit!).        *)

Return(v) == [exit |-> FALSE, value |-> v]

Exit(message) == [exit |-> TRUE, message |-> message]

\* The backquote character of the messages (it cannot be written in a string).
Backquote == "BACKQUOTE"

\* format!("Cannot parse `{}` to <target><sep>{}", self, err), in pieces.
CannotParse(self, target, sep, err) ==
    <<"Cannot parse ", Backquote>> \o self \o <<Backquote, " to ", target, sep, err>>

\* to_glob with the `: ` separator of to_duration and to_size.
to_glob_colon(self) ==
    LET r == Glob_new(self)
    IN IF r.ok THEN Return(r.value)
       ELSE Exit(CannotParse(self, "glob matcher", ": ", r.kind))

to_glob(self) ==
    LET r == Glob_new(self)
    IN IF r.ok THEN Return(r.value)
       ELSE Exit(CannotParse(self, "glob matcher", "\n", r.kind))

\* to_regex that degrades to a regex matching nothing instead of exiting.
to_regex_never(self) ==
    LET r == Regex_new(self)
    IN IF r.ok THEN Return(r.value)
       ELSE Return([pattern |-> self, ast |-> Alt(<<>>)])

to_regex(self) ==
    LET r == Regex_new(self)
    IN IF r.ok THEN Return(r.value)
       ELSE Exit(CannotParse(self, "regular expression", "\n", r.kind))

-----------------------------------------------------------------------------
(* src/matcher/location.rs: LocationMatcher(MatchMode) *)

MatchMode(mode, payload) == [mode |-> mode, payload |-> payload]

\* new with the prefix and suffix arms building each other's variant.
LocationMatcher_new_swapped(loc) ==
    LET regexRaw == replace_match_keyword(loc, REGEX_WORD)
        startRaw == replace_match_keyword(loc, START_WORD)
        endRaw   == replace_match_keyword(loc, END_WORD)
    IN IF regexRaw.some
       THEN LET reg == to_regex(regexRaw.value)
            IN IF reg.exit THEN reg ELSE Return(MatchMode("Regex", reg.value))
       ELSE IF startRaw.some THEN Return(MatchMode("End", startRaw.value))
       ELSE IF endRaw.some THEN Return(MatchMode("Start", endRaw.value))
       ELSE LET glob == to_glob(loc)
            IN IF glob.exit THEN glob
               ELSE Return(MatchMode("Glob", compile_matcher(glob.value)))

\* new that keeps the marker in the prefix literal.
LocationMatcher_new_keeps_marker(loc) ==
    LET regexRaw == replace_match_keyword(loc, REGEX_WORD)
        startRaw == replace_match_keyword(loc, START_WORD)
        endRaw   == replace_match_keyword(loc, END_WORD)
    IN IF regexRaw.some
       THEN LET reg == to_regex(regexRaw.value)
            IN IF reg.exit THEN reg ELSE Return(MatchMode("Regex", reg.value))
       ELSE IF startRaw.some THEN Return(MatchMode("Start", loc))
       ELSE IF endRaw.some THEN Return(MatchMode("End", endRaw.value))
       ELSE LET glob == to_glob(loc)
            IN IF glob.exit THEN glob
               ELSE Return(MatchMode("Glob", compile_matcher(glob.value)))

\* new that validates the prefix literal with the regex compiler.
LocationMatcher_new_validates_prefix(loc) ==
    LET regexRaw == replace_match_keyword(loc, REGEX_WORD)
        startRaw == replace_match_keyword(loc, START_WORD)
        endRaw   == replace_match_keyword(loc, END_WORD)
    IN IF regexRaw.some
       THEN LET reg == to_regex(regexRaw.value)
            IN IF reg.exit THEN reg ELSE Return(MatchMode("Regex", reg.value))
       ELSE IF startRaw.some
            THEN LET reg == to_regex(startRaw.value)
                 IN IF reg.exit THEN reg
                    ELSE Return(MatchMode("Start", startRaw.value))
       ELSE IF endRaw.some THEN Return(MatchMode("End", endRaw.value))
       ELSE LET glob == to_glob(loc)
            IN IF glob.exit THEN glob
               ELSE Return(MatchMode("Glob", compile_matcher(glob.value)))

LocationMatcher_new(loc) ==
    LET regexRaw == replace_match_keyword(loc, REGEX_WORD)
        startRaw == replace_match_keyword(loc, START_WORD)
        endRaw   == replace_match_keyword(loc, END_WORD)
    IN IF regexRaw.some
       THEN LET reg == to_regex(regexRaw.value)
            IN IF reg.exit THEN reg ELSE Return(MatchMode("Regex", reg.value))
       ELSE IF startRaw.some THEN Return(MatchMode("Start", startRaw.value))
       ELSE IF endRaw.some THEN Return(MatchMode("End", endRaw.value))
       ELSE LET glob == to_glob(loc)
            IN IF glob.exit THEN glob
               ELSE Return(MatchMode("Glob", compile_matcher(glob.value)))

\* is_match whose suffix arm compares at the front of the path.
is_match_end_as_start(self, p) ==
    CASE self.mode = "Glob"  -> glob_is_match(self.payload, p)
      [] self.mode = "Regex" -> regex_is_match(self.payload, p)
      [] self.mode = "Start" -> starts_with(p, self.payload)
      [] self.mode = "End"   -> starts_with(p, self.payload)

\* is_match whose regex arm only tries a match at the start of the path.
is_match_regex_at_start(self, p) ==
    CASE self.mode = "Glob"  -> glob_is_match(self.payload, p)
      [] self.mode = "Regex" -> Ends(self.payload.ast, p, {0}) # {}
      [] self.mode = "Start" -> starts_with(p, self.payload)
      [] self.mode = "End"   -> ends_with(p, self.payload)

is_match(self, p) ==
    CASE self.mode = "Glob"  -> glob_is_match(self.payload, p)
      [] self.mode = "Regex" -> regex_is_match(self.payload, p)
      [] self.mode = "Start" -> starts_with(p, self.payload)
      [] self.mode = "End"   -> ends_with(p, self.payload)

-----------------------------------------------------------------------------
(* The state machine.  The configuration loader builds the matcher once    *)
(* (or the process exits); afterwards request handlers call is_match.      *)

NoMatcher == [mode |-> "none"]

Raws == {s \in Strs(Chars, MaxLen) :
            starts_with(s, REGEX_WORD) => InRegexFragment(Drop(s, 1))}

Paths == Strs(PathChars, MaxPathLen)

\* The rules and request paths of the concurrent specification.
ConcRaws == {<<"~", "/", "a">>, <<"~", "*">>, <<"^", "/">>, <<"$", "a">>,
             <<"/", "*">>, <<"[", "a">>}

ConcPaths == {<<"/", "a">>, <<"a", "/", "a">>, <<"a">>}

Init ==
    /\ location = <<>>
    /\ matcher = NoMatcher
    /\ exited = FALSE
    /\ diagnostic = <<>>
    /\ pc = [t \in Threads |-> "idle"]
    /\ path = [t \in Threads |-> <<>>]
    /\ result = [t \in Threads |-> FALSE]

Constructed == matcher # NoMatcher

\* The loader calls LocationMatcher::new(raw).
New(raws) ==
    /\ ~Constructed /\ ~exited
    /\ \E raw \in raws :
         LET r == LocationMatcher_new(raw)
         IN /\ location' = raw
            /\ IF r.exit
               THEN exited' = TRUE /\ diagnostic' = r.message /\ UNCHANGED matcher
               ELSE matcher' = r.value /\ UNCHANGED <<exited, diagnostic>>
    /\ UNCHANGED <<pc, path, result>>

\* A request handler calls is_match(p) and gets the answer.
IsMatch(t) ==
    /\ Constructed /\ pc[t] = "idle"
    /\ \E p \in Paths :
         /\ path' = [path EXCEPT ![t] = p]
         /\ result' = [result EXCEPT ![t] = is_match(matcher, p)]
    /\ pc' = [pc EXCEPT ![t] = "done"]
    /\ UNCHANGED <<location, matcher, exited, diagnostic>>

\* The same call in two steps, for handlers that run concurrently: the call
\* is entered with its path, and later evaluates the matcher and returns.
Call(t) ==
    /\ Constructed /\ pc[t] = "idle"
    /\ \E p \in ConcPaths : path' = [path EXCEPT ![t] = p]
    /\ pc' = [pc EXCEPT ![t] = "call"]
    /\ UNCHANGED <<location, matcher, exited, diagnostic, result>>

\* Eval with the path kept in a buffer shared by the handlers: the call reads
\* the path of whichever call was entered.
Eval_shared_buffer(t) ==
    /\ pc[t] = "call"
    /\ \E u \in Threads :
         /\ pc[u] = "call"
         /\ result' = [result EXCEPT ![t] = is_match(matcher, path[u])]
    /\ pc' = [pc EXCEPT ![t] = "done"]
    /\ UNCHANGED <<location, matcher, exited, diagnostic, path>>

Eval(t) ==
    /\ pc[t] = "call"
    /\ result' = [result EXCEPT ![t] = is_match(matcher, path[t])]
    /\ pc' = [pc EXCEPT ![t] = "done"]
    /\ UNCHANGED <<location, matcher, exited, diagnostic, path>>

\* The handler is done with the answer and is free for the next request.
Done(t) ==
    /\ pc[t] = "done"
    /\ pc' = [pc EXCEPT ![t] = "idle"]
    /\ path' = [path EXCEPT ![t] = <<>>]
    /\ result' = [result EXCEPT ![t] = FALSE]
    /\ UNCHANGED <<location, matcher, exited, diagnostic>>

Next == New(Raws) \/ IsMatch(1) \/ Done(1)

Spec == Init /\ [][Next]_vars

NextConc == New(ConcRaws) \/ \E t \in Threads : Call(t) \/ Eval(t) \/ Done(t)

SpecConc == Init /\ [][NextConc]_vars

-----------------------------------------------------------------------------
(* Reference notions the properties are stated with *)

Markers == {"~", "^", "$"}

Begins(s, c) == Len(s) >= 1 /\ s[1] = c

Unmarked(s) == ~(\E c \in Markers : Begins(s, c))

Remainder == Drop(location, 1)

Modes == {"Glob", "Regex", "Start", "End"}

Attempted == Constructed \/ exited

\* The pieces of a diagnostic, counted from its end: the target and the cause.
TargetOf(d) == d[Len(d) - 2]

CauseOf(d) == d[Len(d)]

Answered(t) == pc[t] = "done"

\* h has w as a leading (trailing) substring.
HasPrefix(h, w) == \E rest \in Strs(PathChars, MaxPathLen) : h = w \o rest

HasSuffix(h, w) == \E rest \in Strs(PathChars, MaxPathLen) : h = rest \o w

\* Spans(n, h, i, j): the expression n matches exactly the substring of h
\* between the positions i and j, the assertions read in the whole of h.
RECURSIVE Spans(_, _, _, _)
RECURSIVE SpansAll(_, _, _, _, _)

Spans(n, h, i, j) ==
    CASE n.t = "lit"   -> j = i + 1 /\ h[j] = n.c
      [] n.t = "any"   -> j = i + 1
      [] n.t = "class" -> j = i + 1 /\ ((h[j] \in n.set) # n.negated)
      [] n.t = "bol"   -> j = i /\ i = 0
      [] n.t = "eol"   -> j = i /\ i = Len(h)
      [] n.t = "cat"   -> SpansAll(n.subs, 1, h, i, j)
      [] n.t = "alt"   -> \E k \in 1..Len(n.subs) : Spans(n.subs[k], h, i, j)
      [] n.t = "rep"   ->
             \/ j = i
             \/ IF n.many
                THEN \E m \in (i + 1)..j : Spans(n.sub, h, i, m) /\ Spans(n, h, m, j)
                ELSE Spans(n.sub, h, i, j)

SpansAll(subs, k, h, i, j) ==
    IF k > Len(subs) THEN j = i
    ELSE \E m \in i..j : Spans(subs[k], h, i, m) /\ SpansAll(subs, k + 1, h, m, j)

MatchesSomeSubstring(ast, h) ==
    \E i \in 0..Len(h) : \E j \in i..Len(h) : Spans(ast, h, i, j)

\* Glob semantics on the whole of w: `?` is any one character, `*` any
\* run of characters (separators included), a class one character of it,
\* `**/` any leading directories, `/**` everything below, `/**/` any
\* directories in between; a lone `**` is everything.
RECURSIVE GlobSat(_, _)
GlobSat(toks, w) ==
    IF toks = <<>> THEN w = <<>>
    ELSE LET tok  == Head(toks)
             rest == Tail(toks)
             one(ok(_)) == w # <<>> /\ ok(w[1]) /\ GlobSat(rest, Tail(w))
             cut(ok(_)) == \E k \in 0..Len(w) :
                               ok(SubSeq(w, 1, k)) /\ GlobSat(rest, Drop(w, k))
             lit(c)   == c = tok.c
             any(c)   == TRUE
             cls(c)   == (c \in tok.set) # tok.negated
             run(d)   == TRUE
             dirs(d)  == d = <<>> \/ d[Len(d)] = "/"
             below(d) == d # <<>> /\ d[1] = "/"
             among(d) == d # <<>> /\ d[1] = "/" /\ d[Len(d)] = "/"
         IN CASE tok.k = "Literal"             -> one(lit)
              [] tok.k = "Any"                 -> one(any)
              [] tok.k = "Class"               -> one(cls)
              [] tok.k = "ZeroOrMore"          -> cut(run)
              [] tok.k = "RecursivePrefix"     -> cut(dirs)
              [] tok.k = "RecursiveSuffix"     -> cut(below)
              [] tok.k = "RecursiveZeroOrMore" -> cut(among)

SatisfiesGlob(toks, w) == toks = <<RecursivePrefix>> \/ GlobSat(toks, w)

-----------------------------------------------------------------------------
(* Properties *)

\* C1: the strategy follows the leading marker: Regex iff the raw string
\* begins with `~`, Start iff with `^`, End iff with `$`, Glob (compiled from
\* the whole raw string) iff with none of them; exactly one variant results.
\* When construction aborts, the compiler that rejected the pattern is the
\* one of the selected strategy.
C1_StrategyByLeadingMarker ==
    /\ Constructed =>
         /\ matcher.mode \in Modes
         /\ matcher.mode = "Regex" <=> Begins(location, "~")
         /\ matcher.mode = "Start" <=> Begins(location, "^")
         /\ matcher.mode = "End" <=> Begins(location, "$")
         /\ matcher.mode = "Glob" <=> Unmarked(location)
         /\ matcher.mode = "Glob" => matcher.payload.pat.glob = location
    /\ exited =>
         /\ TargetOf(diagnostic) = "regular expression" <=> Begins(location, "~")
         /\ TargetOf(diagnostic) = "glob matcher" <=> Unmarked(location)

\* C1 witness: a raw string with two markers built the variant of the first.
C1_Witness ==
    /\ location = <<"~", "^", "a">> /\ matcher.mode = "Regex"
    /\ Answered(1) /\ path[1] = <<"a">> /\ result[1]

\* C2: for the raw string `^` + p the prefix literal is p verbatim and
\* is_match(path) is true iff path starts with p.
C2_PrefixIffStartsWith ==
    (Attempted /\ Begins(location, "^")) =>
        /\ matcher = MatchMode("Start", Remainder)
        /\ \A t \in Threads :
             Answered(t) => (result[t] <=> HasPrefix(path[t], Remainder))

\* C2 witness: p itself begins with a marker and the path starts with it.
C2_Witness ==
    /\ location = <<"^", "~", "/">>
    /\ Answered(1) /\ path[1] = <<"~", "/", "a">> /\ result[1]

\* C3: for the raw string `$` + p the suffix literal is p verbatim and
\* is_match(path) is true iff path ends with p.
C3_SuffixIffEndsWith ==
    (Attempted /\ Begins(location, "$")) =>
        /\ matcher = MatchMode("End", Remainder)
        /\ \A t \in Threads :
             Answered(t) => (result[t] <=> HasSuffix(path[t], Remainder))

\* C3 witness: p itself begins with a marker and the path ends with it.
C3_Witness ==
    /\ location = <<"$", "~", "a">>
    /\ Answered(1) /\ path[1] = <<"/", "~", "a">> /\ result[1]

\* C4: for a raw string `~` + a valid regex, is_match(path) is true iff the
\* expression compiled from the text after `~` matches some substring of
\* path.
C4_RegexUnanchoredSearch ==
    (Constructed /\ Begins(location, "~")) =>
        /\ matcher.mode = "Regex"
        /\ matcher.payload.pattern = Remainder
        /\ \A t \in Threads :
             Answered(t) =>
                (result[t] <=> MatchesSomeSubstring(matcher.payload.ast, path[t]))

\* C4 witness: the expression is found past the start of the path only.
C4_Witness ==
    /\ location = <<"~", "~", "a">>
    /\ Answered(1) /\ path[1] = <<"/", "~", "a">> /\ result[1]

\* C5: an unmarked valid glob is compiled whole and is_match(path) is true
\* iff the entire path satisfies the glob, `*` matching across `/`.
C5_GlobWholePath ==
    (Constructed /\ Unmarked(location)) =>
        /\ matcher.mode = "Glob"
        /\ matcher.payload.pat.glob = location
        /\ \A t \in Threads :
             Answered(t) =>
                (result[t] <=> SatisfiesGlob(matcher.payload.pat.tokens, path[t]))

\* C5 witness: a single `*` matched a run that holds a separator.
C5_Witness ==
    /\ location = <<"/", "*">>
    /\ Answered(1) /\ path[1] = <<"/", "a", "/">> /\ result[1]

\* C6: an invalid regex after `~`, or an invalid unmarked glob, aborts the
\* construction: no matcher is produced, in any mode.
C6_InvalidPatternAborts ==
    Attempted =>
        /\ (Begins(location, "~") /\ ~Regex_new(Remainder).ok) =>
              (exited /\ ~Constructed)
        /\ (Unmarked(location) /\ ~Glob_new(location).ok) =>
              (exited /\ ~Constructed)

\* C6 witness: the regex compiler rejected a pattern that is a fine glob.
C6_Witness ==
    location = <<"~", "*", "a">> /\ exited /\ ~Constructed

\* C7 as stated: the diagnostic is "Cannot parse `<raw>` to <target>:
\* <cause>", naming the raw string given to the constructor.
C7_DiagnosticNamesRawWithColon ==
    exited =>
        diagnostic = <<"Cannot parse ", Backquote>> \o location
                     \o <<Backquote, " to ", TargetOf(diagnostic), ": ",
                          CauseOf(diagnostic)>>

\* C7 amended: the diagnostic names the text handed to the compiler (the
\* whole raw string for a glob, the text after `~` for a regex), the target
\* and, on a new line, the parse error of the compiler.
C7_DiagnosticNamesCompiledText ==
    exited =>
        LET text   == IF Begins(location, "~") THEN Remainder ELSE location
            target == IF Begins(location, "~") THEN "regular expression"
                                               ELSE "glob matcher"
            error  == IF Begins(location, "~") THEN Regex_new(text)
                                               ELSE Glob_new(text)
        IN /\ ~error.ok
           /\ diagnostic = <<"Cannot parse ", Backquote>> \o text
                           \o <<Backquote, " to ", target, "\n", error.kind>>

\* C7 witness: a rejected regex, its diagnostic without the `~`.
C7_Witness ==
    /\ location = <<"~", "?">> /\ exited
    /\ diagnostic = <<"Cannot parse ", Backquote, "?", Backquote, " to ",
                      "regular expression", "\n",
                      "repetition operator missing expression">>

\* C8: construction aborts only when the regex compiler rejects the text
\* after `~` or the glob compiler rejects an unmarked string; `^` and `$`
\* strings always construct; once a matcher exists every is_match answers
\* with a boolean and the process never exits.
C8_FailureOnlyAtCompilation ==
    /\ exited =>
         \/ Begins(location, "~") /\ ~Regex_new(Remainder).ok
         \/ Unmarked(location) /\ ~Glob_new(location).ok
    /\ (Attempted /\ (Begins(location, "^") \/ Begins(location, "$"))) =>
         Constructed
    /\ Constructed => ~exited
    /\ \A t \in Threads : Answered(t) => (Constructed /\ result[t] \in BOOLEAN)

\* C8 witness: a prefix literal no compiler would accept, built and used.
C8_Witness ==
    /\ location = <<"^", "*", "[">> /\ Constructed
    /\ Answered(1) /\ path[1] = <<"a">> /\ ~result[1]

====
